---- MODULE Spec2Model ----
(***************************************************************************)
(* TravelGuide AI (Project Files/travel.py): one Streamlit session.        *)
(* Every user interaction reruns main() from the top; st.session_state is  *)
(* the only storage that survives from one run to the next.  A run is      *)
(* followed through its positions (pc): client initialization, the sidebar *)
(* form, the generate branch, the two session writes and the display       *)
(* block.  Text values are sequences of one-character strings.             *)
(***************************************************************************)
EXTENDS Integers, Sequences, FiniteSets, TLC

\* ---------------------------------------------------------------- bounds
MaxLen == 2          \* longest text typed into a text widget
MaxRuns == 3         \* script runs followed in one session

Chars == {" ", "a"}
Strings == UNION {[1..n -> Chars] : n \in 0..MaxLen}
Days == {5, 30}      \* st.number_input("Days"): default and maximum
Nights == {4}        \* st.number_input("Nights"): default
Texts == {<<>>, <<"t">>, <<"u">>}   \* what response.text can return
Triggers == {"load", "generate", "copy", "download", "edit"}
CallOutcomes == {"ok", "generate_content raises", "response.text raises"}

\* ------------------------------------------------------- python values
\* None and str results of generate_itinerary / initialize_gemini
NoneVal == [none |-> TRUE, v |-> <<>>]
Str(s) == [none |-> FALSE, v |-> s]
\* Python truthiness of an optional string: None and "" are falsy
Truthy(x) == ~x.none /\ x.v # <<>>

VARIABLES
    pc,             \* position of the current run ("idle" between runs)
    runs,           \* script runs started in this session
    trigger,        \* the interaction that caused the current run
    session_state,  \* st.session_state: key -> text
    written_in,     \* for each session key, the run that wrote it last
    env_key,        \* os.getenv("GEMINI_API_KEY") as seen by this run
    secrets_get,    \* outcome of st.secrets.get in this run
    construct,      \* outcome of genai.configure / GenerativeModel
    model,          \* main's local `model`: 0 is None, else a handle
    constructed,    \* GenerativeModel objects constructed in the session
    destination, days, nights, interests, generate_button,  \* main's locals
    prompt,         \* the prompt composed in this run (lines)
    compositions,   \* prompts composed in this run
    calls,          \* model.generate_content calls in this run
    call_outcome,   \* outcome of this run's external call
    response_text,  \* text the provider returned in this run
    itinerary,      \* main's local `itinerary`
    messages,       \* st.error / st.warning / st.info shown in this run
    display         \* what the display block of the last finished run showed

vars == <<pc, runs, trigger, session_state, written_in, env_key, secrets_get,
          construct, model, constructed, destination, days, nights, interests,
          generate_button, prompt, compositions, calls, call_outcome,
          response_text, itinerary, messages, display>>

envVars == <<env_key, secrets_get, construct>>
formVars == <<destination, days, nights, interests, generate_button>>
genVars == <<prompt, compositions, calls, call_outcome, response_text, itinerary>>
sessVars == <<session_state, written_in>>

\* --------------------------------------------------------- session state
EmptySession == [k \in {} |-> <<>>]
Has(ss, k) == k \in DOMAIN ss
\* st.session_state[k] = v
SetItem(ss, k, v) == [x \in (DOMAIN ss) \cup {k} |-> IF x = k THEN v ELSE ss[x]]

\* ------------------------------------------------------------- display
NoDisplay == [kind |-> "none", success |-> <<>>, markdown |-> <<>>,
              code |-> NoneVal, download |-> NoneVal, file_name |-> <<>>]
\* st.stop() at line 119: nothing below the header is rendered
Stopped == [NoDisplay EXCEPT !.kind = "stopped"]
\* lines 201-219
Welcome == [NoDisplay EXCEPT !.kind = "welcome"]
\* lines 176-199
ShowItinerary(ss, copy) ==
    [kind |-> "itinerary",
     success |-> ss["destination"],
     markdown |-> ss["itinerary"],
     code |-> IF copy THEN Str(ss["itinerary"]) ELSE NoneVal,
     download |-> Str(ss["itinerary"]),
     file_name |-> ss["destination"] \o <<"_itinerary.txt">>]

\* ---------------------------------------------------------------- prompt
Line(label, text, nums) == [label |-> label, text |-> text, nums |-> nums]
\* line 83: f"Interests/Preferences: {interests}" if interests else ""
InterestsLine(i) ==
    IF i # <<>> THEN Line("Interests/Preferences: ", i, <<>>)
    ELSE Line("", <<>>, <<>>)
\* lines 78-97
ComposePrompt(d, dy, ni, i) ==
    << Line("Create a detailed and personalized travel itinerary", <<>>, <<>>),
       Line("Destination: ", d, <<>>),
       Line("Duration: days and nights", <<>>, <<dy, ni>>),
       InterestsLine(i),
       Line("Please provide a comprehensive itinerary that includes: 1-8", <<>>, <<>>) >>

\* ------------------------------------------------------------------ Init
Init ==
    /\ pc = "idle"
    /\ runs = 0
    /\ trigger = "load"
    /\ session_state = EmptySession
    /\ written_in = EmptySession
    /\ env_key = <<>>
    /\ secrets_get = "unread"
    /\ construct = "unreached"
    /\ model = 0
    /\ constructed = 0
    /\ destination = <<>>
    /\ days = 5
    /\ nights = 4
    /\ interests = <<>>
    /\ generate_button = FALSE
    /\ prompt = <<>>
    /\ compositions = 0
    /\ calls = 0
    /\ call_outcome = "none"
    /\ response_text = <<>>
    /\ itinerary = NoneVal
    /\ messages = {}
    /\ display = NoDisplay

\* The interactions the page of the last run offers: the sidebar button only
\* if the sidebar was rendered, copy/download only next to a shown itinerary.
Offered(t) ==
    CASE t = "load" -> runs = 0
      [] t = "edit" -> runs > 0
      [] t = "generate" -> display.kind \in {"welcome", "itinerary"}
      [] t = "copy" -> display.kind = "itinerary"
      [] t = "download" -> display.kind = "itinerary"

\* A rerun starts: main() is entered with fresh locals.
StartRun ==
    /\ pc = "idle"
    /\ runs < MaxRuns
    /\ \E t \in Triggers : Offered(t) /\ trigger' = t
    /\ runs' = runs + 1
    /\ pc' = "init"
    /\ env_key' = <<>> /\ secrets_get' = "unread" /\ construct' = "unreached"
    /\ model' = 0
    /\ destination' = <<>> /\ days' = 5 /\ nights' = 4 /\ interests' = <<>>
    /\ generate_button' = FALSE
    /\ prompt' = <<>> /\ compositions' = 0 /\ calls' = 0
    /\ call_outcome' = "none" /\ response_text' = <<>> /\ itinerary' = NoneVal
    /\ messages' = {}
    /\ UNCHANGED <<sessVars, constructed, display>>

\* line 43: os.getenv("GEMINI_API_KEY") or st.secrets.get("GEMINI_API_KEY", "")
ApiKey(env, sec) ==
    IF env # <<>> THEN env
    ELSE IF sec = "value" THEN <<"k">> ELSE <<>>

\* a handle cached for the session: constructed once, reused afterwards
ConstructionsCached(n) == IF n = 0 THEN 1 ELSE n
\* line 54: every successful call constructs one more GenerativeModel
Constructions(n) == n + 1

\* lines 116-119: initialize_gemini() (lines 37-59), then st.stop() when it
\* returned None.  The secret store is consulted only when the environment
\* variable is unset or empty; it can answer with a value, with the default
\* "" or by raising (no secrets file).  Provider construction is reached only
\* with a non-empty key and can raise as well.
InitializeGemini ==
    /\ pc = "init"
    /\ \E env \in {<<>>, <<"k">>}, sec \in {"unread", "value", "default", "raises"},
          con \in {"unreached", "ok", "raises"} :
          /\ (env # <<>>) <=> (sec = "unread")
          /\ (con = "unreached") <=> (sec = "raises" \/ ApiKey(env, sec) = <<>>)
          /\ env_key' = env /\ secrets_get' = sec /\ construct' = con
          /\ \/ /\ sec = "raises"                       \* line 57-59
                /\ messages' = messages \cup {"error: initializing"}
                /\ model' = 0 /\ constructed' = constructed
             \/ /\ sec # "raises" /\ ApiKey(env, sec) = <<>>   \* lines 45-48
                /\ messages' = messages \cup {"error: API key not found",
                                              "info: get your API key"}
                /\ model' = 0 /\ constructed' = constructed
             \/ /\ con = "raises"                       \* lines 51-54, 57-59
                /\ messages' = messages \cup {"error: initializing"}
                /\ model' = 0 /\ constructed' = constructed
             \/ /\ con = "ok"                           \* lines 51-55
                /\ constructed' = Constructions(constructed)
                /\ model' = constructed'
                /\ messages' = messages
    /\ IF model' = 0
         THEN pc' = "idle" /\ display' = Stopped        \* lines 118-119
         ELSE pc' = "form" /\ display' = display
    /\ UNCHANGED <<runs, trigger, sessVars, formVars, genVars>>

\* lines 122-159: the sidebar widgets return what the user entered on the
\* previous page; a form that was not on the previous page returns defaults.
ReadForm ==
    /\ pc = "form"
    /\ IF display.kind \in {"welcome", "itinerary"}
         THEN /\ destination' \in Strings
              /\ days' \in Days
              /\ nights' \in Nights
              /\ interests' \in Strings
         ELSE /\ destination' = <<>> /\ days' = 5 /\ nights' = 4
              /\ interests' = <<>>
    /\ generate_button' = (trigger = "generate")
    /\ pc' = "submit"
    /\ UNCHANGED <<runs, trigger, sessVars, envVars, model, constructed,
                   genVars, messages, display>>

\* line 162: if generate_button
GenerateRequested(button, trig) == button
\* line 163: if not destination
Rejected(d) == d = <<>>

\* lines 162-166
Validate ==
    /\ pc = "submit"
    /\ \/ /\ ~GenerateRequested(generate_button, trigger)
          /\ pc' = "display" /\ messages' = messages
       \/ /\ GenerateRequested(generate_button, trigger) /\ Rejected(destination)
          /\ messages' = messages \cup {"warning: enter a destination"}
          /\ pc' = "display"
       \/ /\ GenerateRequested(generate_button, trigger) /\ ~Rejected(destination)
          /\ pc' = "generate" /\ messages' = messages
    /\ UNCHANGED <<runs, trigger, sessVars, envVars, model, constructed,
                   formVars, genVars, display>>

\* the except branch returning the error text instead of None
ExceptReturnsMessage == Str(<<"e">>)
\* line 106: return None
ExceptReturn == NoneVal
\* line 170: if itinerary
StoreCondition(it) == Truthy(it)
\* a failed call retried once
CallsWithRetry(outcome) == IF outcome = "ok" THEN 1 ELSE 2
\* line 100: one generate_content call per invocation, whatever its outcome
CallsFor(outcome) == 1

\* line 168: generate_itinerary(model, destination, days, nights, interests)
\* (lines 76-106), and the test of its result at line 170.
GenerateItinerary ==
    /\ pc = "generate"
    /\ prompt' = ComposePrompt(destination, days, nights, interests)
    /\ compositions' = compositions + 1
    /\ \E o \in CallOutcomes :
          /\ call_outcome' = o
          /\ calls' = calls + CallsFor(o)
          /\ \/ /\ o = "ok"                                  \* lines 100-102
                /\ \E t \in Texts : response_text' = t /\ itinerary' = Str(t)
                /\ messages' = messages
             \/ /\ o # "ok"                                  \* lines 104-106
                /\ response_text' = response_text
                /\ itinerary' = ExceptReturn
                /\ messages' = messages \cup {"error: generating itinerary"}
    /\ pc' = IF StoreCondition(itinerary') THEN "put_itinerary" ELSE "display"
    /\ UNCHANGED <<runs, trigger, sessVars, envVars, model, constructed,
                   formVars, display>>

\* the text stored and the label forgotten
PutItineraryOnly ==
    /\ pc = "put_itinerary"
    /\ session_state' = SetItem(session_state, "itinerary", itinerary.v)
    /\ written_in' = SetItem(written_in, "itinerary", <<runs>>)
    /\ pc' = "display"
    /\ UNCHANGED <<runs, trigger, envVars, model, constructed, formVars,
                   genVars, messages, display>>

\* line 172: st.session_state['itinerary'] = itinerary
PutItinerary ==
    /\ pc = "put_itinerary"
    /\ session_state' = SetItem(session_state, "itinerary", itinerary.v)
    /\ written_in' = SetItem(written_in, "itinerary", <<runs>>)
    /\ pc' = "put_destination"
    /\ UNCHANGED <<runs, trigger, envVars, model, constructed, formVars,
                   genVars, messages, display>>

\* line 173: st.session_state['destination'] = destination
PutDestination ==
    /\ pc = "put_destination"
    /\ session_state' = SetItem(session_state, "destination", destination)
    /\ written_in' = SetItem(written_in, "destination", <<runs>>)
    /\ pc' = "display"
    /\ UNCHANGED <<runs, trigger, envVars, model, constructed, formVars,
                   genVars, messages, display>>

\* line 189: the copy button returns True in the run its click caused
CopyPressed(trig) == trig = "copy"

\* lines 176-219: the display block, after which the run ends
Display ==
    /\ pc = "display"
    /\ display' = IF Has(session_state, "itinerary")
                    THEN IF Has(session_state, "destination")
                           THEN ShowItinerary(session_state, CopyPressed(trigger))
                           ELSE [NoDisplay EXCEPT !.kind = "KeyError"]
                    ELSE Welcome
    /\ pc' = "idle"
    /\ UNCHANGED <<runs, trigger, sessVars, envVars, model, constructed,
                   formVars, genVars, messages>>

Next ==
    \/ StartRun
    \/ InitializeGemini
    \/ ReadForm
    \/ Validate
    \/ GenerateItinerary
    \/ PutItinerary
    \/ PutDestination
    \/ Display

Spec == Init /\ [][Next]_vars

\* ------------------------------------------------------------ properties
\* str.strip(): the text without leading and trailing blanks
RECURSIVE LStrip(_)
LStrip(s) == IF s # <<>> /\ Head(s) = " " THEN LStrip(Tail(s)) ELSE s
RECURSIVE RStrip(_)
RStrip(s) ==
    IF s # <<>> /\ s[Len(s)] = " " THEN RStrip(SubSeq(s, 1, Len(s) - 1)) ELSE s
Strip(s) == RStrip(LStrip(s))
\* t occurs in s as a contiguous piece
Contains(s, t) ==
    \E i \in 1..(Len(s) - Len(t) + 1) : SubSeq(s, i, i + Len(t) - 1) = t
InterestsLines(p) == {i \in DOMAIN p : p[i].label = "Interests/Preferences: "}
Failed(o) == o \in CallOutcomes \ {"ok"}
RunEnded == pc = "idle" /\ runs > 0
WroteThisRun(k) == Has(written_in, k) /\ written_in[k] = <<runs>>

\* C1: in a run whose external call failed (generate_content raised, or
\* reading response.text raised) no step changes the session: the stored
\* itinerary and destination label stay as they were before the attempt.
C1_FailedCallKeepsSession ==
    [][Failed(call_outcome) => session_state' = session_state]_vars
\* a failed attempt has ended in a session that already held a result
C1_Witness ==
    RunEnded /\ Failed(call_outcome) /\ Has(session_state, "itinerary")

\* C2: a submission whose destination is empty or only whitespace ends with
\* the validation warning and without any call to the external client.
C2_BlankDestinationRejected ==
    (RunEnded /\ generate_button /\ Strip(destination) = <<>>)
        => ("warning: enter a destination" \in messages /\ calls = 0)

\* C3: after a run whose external call succeeded with text T for the accepted
\* destination D, the session holds text exactly T and label exactly D.
C3_SuccessIsStored ==
    (RunEnded /\ call_outcome = "ok")
        => /\ Has(session_state, "itinerary") /\ Has(session_state, "destination")
           /\ session_state["itinerary"] = response_text
           /\ session_state["destination"] = destination

\* C4: a run in which neither the environment variable nor the secret store
\* yields a non-empty credential reports the missing credential and makes no
\* external generation call.
C4_MissingCredentialReported ==
    (RunEnded /\ env_key = <<>> /\ secrets_get \in {"default", "raises"})
        => ("error: API key not found" \in messages /\ calls = 0)

\* C5: the composed prompt has no interests line when interests is empty or
\* only whitespace, and exactly one, carrying the trimmed interests text,
\* when interests is non-empty after trimming.
C5_InterestsLine ==
    (compositions > 0)
        => IF Strip(interests) = <<>>
             THEN InterestsLines(prompt) = {}
             ELSE /\ Cardinality(InterestsLines(prompt)) = 1
                  /\ \A i \in InterestsLines(prompt) :
                        Contains(prompt[i].text, Strip(interests))

\* C6: a generation attempt that did not write the session ends with a
\* message: the validation warning for a rejected destination, the generation
\* error for a failed call, never with no message at all.
C6_NoSilentFailure ==
    (RunEnded /\ generate_button /\ ~WroteThisRun("itinerary"))
        => /\ messages # {}
           /\ Rejected(destination)
                => messages = {"warning: enter a destination"}
           /\ Failed(call_outcome)
                => messages = {"error: generating itinerary"}

\* C7: once the session holds an itinerary, every finished run has rendered
\* the stored itinerary and offered the download.
C7_StoredItineraryRendered ==
    (RunEnded /\ Has(session_state, "itinerary"))
        => /\ display.kind = "itinerary"
           /\ display.markdown = session_state["itinerary"]
           /\ display.download = Str(session_state["itinerary"])

\* C8: wherever the display block can observe the session (on entering it and
\* after the run), the stored text and the stored label were written by the
\* same run, the text is never there without its label, and what was rendered
\* and offered for download is that pair.
C8_TextAndLabelTogether ==
    /\ (pc \in {"display", "idle"} /\ Has(session_state, "itinerary"))
          => /\ Has(session_state, "destination")
             /\ written_in["itinerary"] = written_in["destination"]
    /\ (pc = "idle" /\ display.kind = "itinerary")
          => /\ display.markdown = session_state["itinerary"]
             /\ display.success = session_state["destination"]
             /\ display.download = Str(session_state["itinerary"])
             /\ display.file_name = session_state["destination"] \o <<"_itinerary.txt">>
\* a second successful generation has replaced a different, displayed result
C8_Witness ==
    /\ pc = "display" /\ display.kind = "itinerary"
    /\ WroteThisRun("itinerary") /\ WroteThisRun("destination")
    /\ display.markdown # session_state["itinerary"]
    /\ display.success # session_state["destination"]

\* C9: a run caused by the generate button with a non-empty destination
\* composes exactly one prompt and makes exactly one external call, also when
\* that call fails; a run not caused by the generate button makes none.
C9_OneCallPerPress ==
    /\ (RunEnded /\ generate_button /\ destination # <<>>)
          => (calls = 1 /\ compositions = 1)
    /\ (trigger # "generate") => (calls = 0 /\ compositions = 0)
    /\ calls <= 1 /\ compositions <= 1
\* a press whose single call failed has ended
C9_Witness ==
    RunEnded /\ generate_button /\ Failed(call_outcome) /\ calls = 1

====
